---- MODULE Spec2Model ----
(***************************************************************************)
(* reset_db.py: the database reset script.  main() drops the tables, runs  *)
(* the migration and seed subprocesses, optionally creates the test        *)
(* fixture (create_test_data) and prints verification counts.              *)
(*                                                                         *)
(* The database client (execute/query), the repository layer (finders and  *)
(* creators) and the two subprocesses are collaborators: every call is     *)
(* recorded in `calls`, may raise, and acts on the abstract database `db`. *)
(***************************************************************************)
EXTENDS Integers, Sequences, FiniteSets, TLC

VARIABLES
    args,         \* parsed command line: [with_test_data, skip_drop]
    pc,           \* position of main()
    fpc,          \* position of create_test_data()
    db,           \* the database rows
    calls,        \* every external call issued so far, in order
    out,          \* the status lines printed so far (key lines only)
    result,       \* main's `result` after a run_cmd
    rows,         \* main's `result` after a db.query
    count,        \* main's `count` in the verification loop
    table_i,      \* index of the drop loop
    verify_i,     \* index of the verification loop
    account_ids,  \* create_test_data's `account_ids`
    account_id,   \* create_test_data's `account_id`
    pos_i,        \* index of the positions loop
    run,          \* number of create_test_data invocations started
    snap,         \* row counts and call-log length when the latest invocation started
    exitCode      \* process exit status; -1 while running

vars == <<args, pc, fpc, db, calls, out, result, rows, count, table_i, verify_i,
          account_ids, account_id, pos_i, run, snap, exitCode>>

(***************************************************************************)
(* Bounds of the model.                                                    *)
(***************************************************************************)
MaxInitAccounts == 3
MaxInitPositions == 5
MaxRuns == 2

(***************************************************************************)
(* Program constants.                                                      *)
(***************************************************************************)
TestUser == "test_user_001"

tables_to_drop == <<"positions", "accounts", "jobs", "instruments", "users">>

DropTableSql(table) == "DROP TABLE IF EXISTS " \o table \o " CASCADE"

DropFunctionSql == "DROP FUNCTION IF EXISTS update_updated_at_column() CASCADE"

MigrationCmd == <<"uv", "run", "run_migrations.py">>

SeedCmd == <<"uv", "run", "seed_data.py">>

accounts == <<"401(k)", "Roth IRA", "Taxable Brokerage">>

positions == <<"SPY", "QQQ", "BND", "VEA", "GLD">>

tables == <<"users", "instruments", "accounts", "positions", "jobs">>

CountSql(table) == "SELECT COUNT(*) as count FROM " \o table

\* '22/22 instruments loaded', character by character
Marker == <<"2", "2", "/", "2", "2", " ", "i", "n", "s", "t", "r", "u", "m", "e",
            "n", "t", "s", " ", "l", "o", "a", "d", "e", "d">>

(***************************************************************************)
(* Pure helpers.                                                           *)
(***************************************************************************)
\* Python's `sub in s` on text
Contains(s, sub) ==
    \E i \in 0..(Len(s) - Len(sub)) : SubSeq(s, i + 1, i + Len(sub)) = sub

\* mutant of HasMarker: the marker must be the whole output
HasMarkerExact(stdout) == stdout = Marker

HasMarker(stdout) == Contains(stdout, Marker)

\* `result.stdout or ""`
OrEmpty(captured) == IF captured.none THEN <<>> ELSE captured.text

\* mutant of Fatal: only positive return codes are treated as failure
FatalPositive(returncode) == returncode > 0

\* `result.returncode != 0`
Fatal(returncode) == returncode # 0

\* mutant of Found: the batch is skipped only when it is complete
FoundFive(found) == Len(found) = 5

\* truthiness of a list returned by a finder (`if existing_positions:` etc.)
Found(found) == found # <<>>

\* mutant of FirstId: the last account id is used
LastId(ids) == ids[Len(ids)]

\* `account_ids[0]`
FirstId(ids) == ids[1]

\* mutant of AfterArgs: --skip-drop skips the drop only
AfterArgsMigrate(a) == IF a.skip_drop THEN "migrate" ELSE "drop"

\* `if not args.skip_drop:` guards the drop and the migration together
AfterArgs(a) == IF a.skip_drop THEN "seed" ELSE "drop"

\* one entry of the call log: the operation, its text argument, its account
\* id argument (0 when it has none), the return code of a subprocess (0
\* otherwise) and whether the call raised
\* mutant of WithTestData: the fixture is tied to the drop as well
WithTestDataUnlessSkip(a) == a.with_test_data /\ ~a.skip_drop

\* `if args.with_test_data:`
WithTestData(a) == a.with_test_data

Call(op, arg, id, rc, raised) ==
    [op |-> op, arg |-> arg, id |-> id, rc |-> rc, raised |-> raised]

\* mutant of ReportedCount: the rows returned are counted
ReportedCountLen(r) == Len(r)

\* `result[0]['count'] if result else 0`
ReportedCount(r) == IF r # <<>> THEN r[1].count ELSE 0

(***************************************************************************)
(* The database and the repository layer.                                  *)
(***************************************************************************)
RowCount(d, table) ==
    IF table \in {"instruments", "jobs"} THEN d[table] ELSE Len(d[table])

Dropped(d, table) ==
    IF table \in {"instruments", "jobs"} THEN [d EXCEPT ![table] = 0]
    ELSE [d EXCEPT ![table] = <<>>]

find_by_clerk_id(d, clerk_id) ==
    SelectSeq(d.users, LAMBDA u : u = clerk_id)

find_by_user(d, clerk_id) ==
    SelectSeq(d.accounts, LAMBDA a : a.user = clerk_id)

find_by_account(d, id) ==
    SelectSeq(d.positions, LAMBDA p : p.account_id = id)

create_user(d, clerk_id) ==
    [d EXCEPT !.users = Append(@, clerk_id)]

create_account(d, clerk_id, name) ==
    [d EXCEPT !.accounts = Append(@, [id |-> d.next_id, user |-> clerk_id, name |-> name]),
              !.next_id = @ + 1]

add_position(d, id, symbol) ==
    [d EXCEPT !.positions = Append(@, [account_id |-> id, symbol |-> symbol])]

Ids(accs) == [i \in 1..Len(accs) |-> accs[i].id]

Counts(d) == [users |-> Len(d.users), accounts |-> Len(d.accounts),
              positions |-> Len(d.positions)]

(***************************************************************************)
(* Inputs.                                                                 *)
(***************************************************************************)
Args == [with_test_data : BOOLEAN, skip_drop : BOOLEAN]

ReturnCodes == {0, 1, 2, 0 - 9}

Text(s) == [none |-> FALSE, text |-> s]

Stdouts ==
    { [none |-> TRUE, text |-> <<>>],
      Text(<<>>),
      Text(Marker),
      Text(<<"o", "k", " ">> \o Marker \o <<"\n">>),
      Text(SubSeq(Marker, 1, Len(Marker) - 1)),
      Text(<<"2", "1">> \o SubSeq(Marker, 3, Len(Marker))),
      Text(SubSeq(Marker, 1, 5) \o <<" ">> \o SubSeq(Marker, 6, Len(Marker))) }

InitAccountName(i) == IF i <= Len(accounts) THEN accounts[i] ELSE "Other"

InitSymbol(i) == IF i <= Len(positions) THEN positions[i] ELSE "XYZ"

\* the states an earlier (possibly interrupted) run can leave behind: the
\* test user with a prefix of accounts, one of which (`owner`) holds a prefix
\* of positions
InitDb(hasUser, nAcc, owner, nPos, nInstr, nJobs) ==
    [users |-> IF hasUser THEN <<TestUser>> ELSE <<>>,
     accounts |-> IF nAcc = 0 THEN <<>>
                  ELSE [i \in 1..nAcc |->
                          [id |-> i, user |-> TestUser, name |-> InitAccountName(i)]],
     positions |-> IF nPos = 0 THEN <<>>
                   ELSE [i \in 1..nPos |->
                           [account_id |-> owner, symbol |-> InitSymbol(i)]],
     next_id |-> nAcc + 1,
     instruments |-> nInstr,
     jobs |-> nJobs]

InitDbs ==
    { InitDb(u, a[1], a[2], p, s[1], s[2]) :
        u \in BOOLEAN,
        a \in {<<0, 1>>} \cup {<<n, o>> : n \in 1..MaxInitAccounts, o \in {1, MaxInitAccounts}},
        p \in 0..MaxInitPositions,
        s \in {<<0, 0>>, <<22, 1>>} }

\* foreign keys hold: accounts need their user, positions their account
WellFormed(d) ==
    /\ d.accounts # <<>> => d.users # <<>>
    /\ \A i \in 1..Len(d.positions) :
          \E j \in 1..Len(d.accounts) : d.accounts[j].id = d.positions[i].account_id

NoResult == [returncode |-> 0, stdout |-> Text(<<>>)]

NoSnap == [counts |-> [users |-> 0, accounts |-> 0, positions |-> 0], ncalls |-> 0]

InitCommon ==
    /\ db \in {d \in InitDbs : WellFormed(d)}
    /\ calls = <<>>
    /\ out = <<>>
    /\ result = NoResult
    /\ rows = <<>>
    /\ count = 0
    /\ table_i = 1
    /\ verify_i = 1
    /\ account_ids = <<>>
    /\ account_id = 0
    /\ pos_i = 1
    /\ run = 0
    /\ snap = NoSnap
    /\ exitCode = 0 - 1
    /\ fpc = "idle"

Init ==
    /\ InitCommon
    /\ args \in Args
    /\ pc = "start"

InitFixture ==
    /\ InitCommon
    /\ args = [with_test_data |-> TRUE, skip_drop |-> TRUE]
    /\ pc = "harness"

(***************************************************************************)
(* main()                                                                  *)
(***************************************************************************)
\* parse_args, the banner, the two clients and `if not args.skip_drop:`
MainBegin ==
    /\ pc = "start"
    /\ pc' = AfterArgs(args)
    /\ UNCHANGED <<args, fpc, db, calls, out, result, rows, count, table_i, verify_i,
                   account_ids, account_id, pos_i, run, snap, exitCode>>

\* one iteration of `for table in tables_to_drop:`; `catch` is the except clause
DropTableStep(catch) ==
    /\ pc = "drop"
    /\ table_i <= Len(tables_to_drop)
    /\ \E raises \in BOOLEAN :
        /\ calls' = Append(calls, Call("execute", DropTableSql(tables_to_drop[table_i]),
                                       0, 0, raises))
        /\ db' = IF raises THEN db ELSE Dropped(db, tables_to_drop[table_i])
        /\ IF raises /\ ~catch
           THEN pc' = "crashed" /\ exitCode' = 1 /\ UNCHANGED table_i
           ELSE pc' = pc /\ table_i' = table_i + 1 /\ UNCHANGED exitCode
    /\ UNCHANGED <<args, fpc, out, result, rows, count, verify_i,
                   account_ids, account_id, pos_i, run, snap>>

\* mutant of DropTable: the exception of a drop is not caught
DropTableNoCatch == DropTableStep(FALSE)

DropTable == DropTableStep(TRUE)

\* the DROP FUNCTION statement and its except clause; drop_all_tables returns
DropFunction ==
    /\ pc = "drop"
    /\ table_i = Len(tables_to_drop) + 1
    /\ \E raises \in BOOLEAN :
        calls' = Append(calls, Call("execute", DropFunctionSql, 0, 0, raises))
    /\ table_i' = table_i + 1
    /\ pc' = "migrate"
    /\ UNCHANGED <<args, fpc, db, out, result, rows, count, verify_i,
                   account_ids, account_id, pos_i, run, snap, exitCode>>

\* run_cmd(['uv', 'run', 'run_migrations.py']) and the check of its return code
RunMigrations ==
    /\ pc = "migrate"
    /\ \E rc \in ReturnCodes :
        /\ calls' = Append(calls, Call("run_cmd", MigrationCmd[3], 0, rc, FALSE))
        /\ result' = [returncode |-> rc, stdout |-> Text(<<>>)]
        /\ IF Fatal(rc)
           THEN /\ out' = Append(out, "Migration failed!")
                /\ exitCode' = 1
                /\ pc' = "exited"
           ELSE /\ out' = Append(out, "Migrations completed")
                /\ pc' = "seed"
                /\ UNCHANGED exitCode
    /\ UNCHANGED <<args, fpc, db, rows, count, table_i, verify_i,
                   account_ids, account_id, pos_i, run, snap>>

\* run_cmd(['uv', 'run', 'seed_data.py']), the check of its return code and
\* the choice of the success message; a successful seed loads the instruments
RunSeed ==
    /\ pc = "seed"
    /\ \E rc \in ReturnCodes, so \in Stdouts :
        /\ calls' = Append(calls, Call("run_cmd", SeedCmd[3], 0, rc, FALSE))
        /\ result' = [returncode |-> rc, stdout |-> so]
        /\ IF Fatal(rc)
           THEN /\ out' = Append(out, "Seed data failed!")
                /\ exitCode' = 1
                /\ pc' = "exited"
                /\ UNCHANGED db
           ELSE /\ out' = Append(out, IF HasMarker(OrEmpty(so))
                                      THEN "Loaded 22 instruments"
                                      ELSE "Seed data loaded")
                /\ db' = [db EXCEPT !.instruments = 22]
                /\ pc' = "fixture"
                /\ UNCHANGED exitCode
    /\ UNCHANGED <<args, fpc, rows, count, table_i, verify_i,
                   account_ids, account_id, pos_i, run, snap>>

\* entry of create_test_data: its locals are fresh
EnterFixture ==
    /\ fpc' = "find_user"
    /\ run' = run + 1
    /\ snap' = [counts |-> Counts(db), ncalls |-> Len(calls)]
    /\ account_ids' = <<>>
    /\ account_id' = 0
    /\ pos_i' = 1

\* `if args.with_test_data: create_test_data(db_models)`; the subprocess
\* result is not read again before line 213 reassigns it
FixtureGate ==
    /\ pc = "fixture"
    /\ result' = NoResult
    /\ IF WithTestData(args)
       THEN pc' = "in_fixture" /\ EnterFixture
       ELSE pc' = "verify" /\ UNCHANGED <<fpc, run, snap, account_ids, account_id, pos_i>>
    /\ UNCHANGED <<args, db, calls, out, rows, count, table_i, verify_i, exitCode>>

\* create_test_data returned to main
FixtureReturns ==
    /\ pc = "in_fixture"
    /\ fpc = "returned"
    /\ pc' = "verify"
    /\ UNCHANGED <<args, fpc, db, calls, out, result, rows, count, table_i, verify_i,
                   account_ids, account_id, pos_i, run, snap, exitCode>>

\* an exception of create_test_data is not caught by main: traceback, status 1
FixtureRaises ==
    /\ pc = "in_fixture"
    /\ fpc = "raised"
    /\ pc' = "crashed"
    /\ exitCode' = 1
    /\ UNCHANGED <<args, fpc, db, calls, out, result, rows, count, table_i, verify_i,
                   account_ids, account_id, pos_i, run, snap>>

\* one iteration of `for table in tables:`: the query may raise (uncaught),
\* return no row, or return the row count
VerifyTable ==
    /\ pc = "verify"
    /\ verify_i <= Len(tables)
    /\ \E outcome \in {"raise", "empty", "row"} :
        /\ calls' = Append(calls, Call("query", CountSql(tables[verify_i]), 0, 0,
                                       outcome = "raise"))
        /\ IF outcome = "raise"
           THEN /\ pc' = "crashed"
                /\ exitCode' = 1
                /\ UNCHANGED <<rows, count, verify_i>>
           ELSE /\ rows' = IF outcome = "empty" THEN <<>>
                           ELSE <<[count |-> RowCount(db, tables[verify_i])]>>
                /\ count' = ReportedCount(rows')
                /\ verify_i' = verify_i + 1
                /\ pc' = IF verify_i = Len(tables) THEN "summary" ELSE pc
                /\ UNCHANGED exitCode
    /\ UNCHANGED <<args, fpc, db, out, result, table_i,
                   account_ids, account_id, pos_i, run, snap>>

\* the closing lines; main returns and the process exits with status 0
Summary ==
    /\ pc = "summary"
    /\ out' = IF WithTestData(args)
              THEN out \o <<"Database reset complete!", "Test user created">>
              ELSE Append(out, "Database reset complete!")
    /\ exitCode' = 0
    /\ pc' = "done"
    /\ UNCHANGED <<args, fpc, db, calls, result, rows, count, table_i, verify_i,
                   account_ids, account_id, pos_i, run, snap>>

(***************************************************************************)
(* create_test_data()                                                      *)
(***************************************************************************)
\* `existing = db_models.users.find_by_clerk_id('test_user_001')`
FindUser ==
    /\ fpc = "find_user"
    /\ \E raises \in BOOLEAN :
        /\ calls' = Append(calls, Call("find_by_clerk_id", TestUser, 0, 0, raises))
        /\ IF raises
           THEN fpc' = "raised" /\ UNCHANGED out
           ELSE IF Found(find_by_clerk_id(db, TestUser))
                THEN fpc' = "find_accounts" /\ out' = Append(out, "Test user already exists")
                ELSE fpc' = "create_user" /\ UNCHANGED out
    /\ UNCHANGED <<args, pc, db, result, rows, count, table_i, verify_i,
                   account_ids, account_id, pos_i, run, snap, exitCode>>

\* `db_models.users.create_user(...)`; its exception propagates (no try)
CreateUserStep(propagates) ==
    /\ fpc = "create_user"
    /\ \E raises \in BOOLEAN :
        /\ calls' = Append(calls, Call("create_user", TestUser, 0, 0, raises))
        /\ IF raises
           THEN /\ fpc' = IF propagates THEN "raised" ELSE "find_accounts"
                /\ UNCHANGED <<db, out>>
           ELSE /\ db' = create_user(db, TestUser)
                /\ out' = Append(out, "Created test user")
                /\ fpc' = "find_accounts"
    /\ UNCHANGED <<args, pc, result, rows, count, table_i, verify_i,
                   account_ids, account_id, pos_i, run, snap, exitCode>>

\* mutant of CreateUser: a failed user creation is swallowed
CreateUserSwallow == CreateUserStep(FALSE)

CreateUser == CreateUserStep(TRUE)

\* `user_accounts = db_models.accounts.find_by_user('test_user_001')` and the
\* branch on it
FindAccounts ==
    /\ fpc = "find_accounts"
    /\ \E raises \in BOOLEAN :
        /\ calls' = Append(calls, Call("find_by_user", TestUser, 0, 0, raises))
        /\ IF raises
           THEN fpc' = "raised" /\ UNCHANGED <<out, account_ids>>
           ELSE IF Found(find_by_user(db, TestUser))
                THEN /\ out' = Append(out, "User already has accounts")
                     /\ account_ids' = Ids(find_by_user(db, TestUser))
                     /\ fpc' = "find_positions"
                ELSE /\ account_ids' = <<>>
                     /\ fpc' = "create_account"
                     /\ UNCHANGED out
    /\ UNCHANGED <<args, pc, db, result, rows, count, table_i, verify_i,
                   account_id, pos_i, run, snap, exitCode>>

\* one iteration of `for acc_data in accounts:`
CreateAccount ==
    /\ fpc = "create_account"
    /\ Len(account_ids) < Len(accounts)
    /\ \E raises \in BOOLEAN :
        /\ calls' = Append(calls, Call("create_account", accounts[Len(account_ids) + 1],
                                       0, 0, raises))
        /\ IF raises
           THEN fpc' = "raised" /\ UNCHANGED <<db, account_ids>>
           ELSE /\ db' = create_account(db, TestUser, accounts[Len(account_ids) + 1])
                /\ account_ids' = Append(account_ids, db.next_id)
                /\ fpc' = IF Len(account_ids') = Len(accounts)
                          THEN "find_positions" ELSE fpc
    /\ UNCHANGED <<args, pc, out, result, rows, count, table_i, verify_i,
                   account_id, pos_i, run, snap, exitCode>>

\* `if account_ids:`, `account_id = account_ids[0]`,
\* `existing_positions = db_models.positions.find_by_account(account_id)` and
\* the branch on it
FindPositions ==
    /\ fpc = "find_positions"
    /\ IF account_ids = <<>>
       THEN fpc' = "returned" /\ UNCHANGED <<calls, out, account_id, pos_i>>
       ELSE /\ account_id' = FirstId(account_ids)
            /\ \E raises \in BOOLEAN :
                /\ calls' = Append(calls, Call("find_by_account", "", account_id', 0, raises))
                /\ IF raises
                   THEN fpc' = "raised" /\ UNCHANGED <<out, pos_i>>
                   ELSE IF Found(find_by_account(db, account_id'))
                        THEN /\ out' = Append(out, "Account already has positions")
                             /\ fpc' = "returned"
                             /\ UNCHANGED pos_i
                        ELSE /\ pos_i' = 1
                             /\ fpc' = "add_position"
                             /\ UNCHANGED out
    /\ UNCHANGED <<args, pc, db, result, rows, count, table_i, verify_i,
                   account_ids, run, snap, exitCode>>

\* one iteration of `for symbol, quantity in positions:`
AddPosition ==
    /\ fpc = "add_position"
    /\ pos_i <= Len(positions)
    /\ \E raises \in BOOLEAN :
        /\ calls' = Append(calls, Call("add_position", positions[pos_i], account_id, 0, raises))
        /\ IF raises
           THEN fpc' = "raised" /\ UNCHANGED <<db, pos_i>>
           ELSE /\ db' = add_position(db, account_id, positions[pos_i])
                /\ pos_i' = pos_i + 1
                /\ fpc' = IF pos_i = Len(positions) THEN "returned" ELSE fpc
    /\ UNCHANGED <<args, pc, out, result, rows, count, table_i, verify_i,
                   account_ids, account_id, run, snap, exitCode>>

\* the fixture step run again on the state its previous run left
CallAgain ==
    /\ pc = "harness"
    /\ fpc \in {"idle", "returned"}
    /\ run < MaxRuns
    /\ EnterFixture
    /\ UNCHANGED <<args, pc, db, calls, out, result, rows, count, table_i, verify_i,
                   exitCode>>

Fixture ==
    \/ FindUser
    \/ CreateUser
    \/ FindAccounts
    \/ CreateAccount
    \/ FindPositions
    \/ AddPosition

Next ==
    \/ MainBegin
    \/ DropTable
    \/ DropFunction
    \/ RunMigrations
    \/ RunSeed
    \/ FixtureGate
    \/ Fixture
    \/ FixtureReturns
    \/ FixtureRaises
    \/ VerifyTable
    \/ Summary

Spec == Init /\ [][Next]_vars

NextFixture == CallAgain \/ Fixture

SpecFixture == InitFixture /\ [][NextFixture]_vars

(***************************************************************************)
(* Properties.                                                             *)
(***************************************************************************)
Last(s) == s[Len(s)]

CallsOf(ops) == SelectSeq(calls, LAMBDA c : c.op \in ops)

IsMigration(c) == c.op = "run_cmd" /\ c.arg = "run_migrations.py"

IsSeed(c) == c.op = "run_cmd" /\ c.arg = "seed_data.py"

Creates == {"create_user", "create_account", "add_position"}

\* the calls of the current (latest) invocation of create_test_data
CurrentRun ==
    IF run = 0 THEN <<>>
    ELSE SelectSeq(SubSeq(calls, snap.ncalls + 1, Len(calls)),
                   LAMBDA c : c.op \notin {"query"})

Names(accs) == [i \in DOMAIN accs |-> accs[i].name]

Symbols(ps) == [i \in DOMAIN ps |-> ps[i].symbol]

Args_(cs) == [i \in DOMAIN cs |-> cs[i].arg]

IsPrefix(s, t) == Len(s) <= Len(t) /\ \A i \in 1..Len(s) : s[i] = t[i]

\* C1: a subprocess that returns non-zero is the last call the script makes
\* (no seed after a failed migration, no fixture call, no COUNT query), and
\* the script is then exited with status 1.
C1_FatalSubprocess ==
    \A i \in 1..Len(calls) :
        (calls[i].op = "run_cmd" /\ calls[i].rc # 0) =>
            /\ i = Len(calls)
            /\ pc = "exited"
            /\ exitCode = 1

C1_Witness ==
    /\ pc = "exited"
    /\ IsMigration(Last(calls))
    /\ Last(calls).rc = 2

\* C2 as stated: with --skip-drop no DROP is executed and the migration
\* subprocess is still invoked before the seed subprocess.
C2_SkipDropStillMigrates ==
    (args.skip_drop /\ \E i \in 1..Len(calls) : IsSeed(calls[i])) =>
        /\ \A i \in 1..Len(calls) : calls[i].op # "execute"
        /\ \E i \in 1..Len(calls) : IsMigration(calls[i])

\* C2 amended: with --skip-drop neither a DROP statement nor the migration
\* subprocess is ever issued; the first call the script makes is the seed
\* subprocess.
C2_SkipDropSkipsMigration ==
    args.skip_drop =>
        /\ \A i \in 1..Len(calls) : calls[i].op # "execute" /\ ~IsMigration(calls[i])
        /\ pc \notin {"start", "seed"} => (Len(calls) >= 1 /\ IsSeed(calls[1]))

C2_Witness ==
    /\ args.skip_drop
    /\ pc = "done"
    /\ IsSeed(calls[1])

\* C3: when create_test_data has run to completion and is run to completion
\* again, the second run leaves the user, account and position row counts as
\* the first left them and calls none of create_user, create_account,
\* add_position.
C3_Idempotent ==
    (run >= 2 /\ fpc = "returned") =>
        /\ Counts(db) = snap.counts
        /\ \A i \in 1..Len(CurrentRun) : CurrentRun[i].op \notin Creates

C3_Witness ==
    /\ run = 2
    /\ fpc = "returned"
    /\ Len(CallsOf({"create_account"})) = 3
    /\ Len(CallsOf({"add_position"})) = 5

ExpectedDrops ==
    <<"DROP TABLE IF EXISTS positions CASCADE",
      "DROP TABLE IF EXISTS accounts CASCADE",
      "DROP TABLE IF EXISTS jobs CASCADE",
      "DROP TABLE IF EXISTS instruments CASCADE",
      "DROP TABLE IF EXISTS users CASCADE",
      "DROP FUNCTION IF EXISTS update_updated_at_column() CASCADE">>

\* C4: whichever drop statements raise, the statements executed are always a
\* prefix of the six drops in their fixed order, a raising drop never ends
\* the script, and once the drop step is left all six have been issued
\* exactly once and the next call (if any) is the migration subprocess.
C4_DropsFaultTolerant ==
    /\ IsPrefix(Args_(CallsOf({"execute"})), ExpectedDrops)
    /\ (calls # <<>> /\ Last(calls).op = "execute") => pc \in {"drop", "migrate"}
    /\ (~args.skip_drop /\ pc \notin {"start", "drop"}) =>
        /\ Args_(CallsOf({"execute"})) = ExpectedDrops
        /\ Args_(SubSeq(calls, 1, 6)) = ExpectedDrops
        /\ pc = "migrate" => Len(calls) = 6
        /\ pc # "migrate" => IsMigration(calls[7])

C4_Witness ==
    /\ pc = "seed"
    /\ Len(calls) = 7
    /\ \A i \in 1..6 : calls[i].op = "execute" /\ calls[i].raised

\* the fixture as the closing summary describes it
FixturePresent ==
    /\ Found(find_by_clerk_id(db, TestUser))
    /\ Names(find_by_user(db, TestUser)) = <<"401(k)", "Roth IRA", "Taxable Brokerage">>
    /\ Symbols(find_by_account(db, find_by_user(db, TestUser)[1].id))
           = <<"SPY", "QQQ", "BND", "VEA", "GLD">>

\* C5 as stated: whenever create_test_data has returned normally (and so
\* whenever main prints the 'Test user created' summary) the user exists with
\* exactly three accounts and the first holds exactly the five positions.
C5_FixtureAlwaysComplete ==
    (run >= 1 /\ fpc = "returned") => FixturePresent

\* C5 amended: when create_test_data returns normally from a state in which
\* test_user_001 had no accounts, the user exists with exactly the three
\* accounts and the first holds exactly the five positions; when the user
\* already had accounts, their number is left as found.
C5_FixtureFromNoAccounts ==
    (run >= 1 /\ fpc = "returned") =>
        /\ snap.counts.accounts = 0 => FixturePresent
        /\ snap.counts.accounts > 0 => Len(db.accounts) = snap.counts.accounts

C5_Witness ==
    /\ pc = "done"
    /\ run = 1
    /\ snap.counts.accounts = 0
    /\ Last(out) = "Test user created"
    /\ FixturePresent

\* a step that issues an external call
Issued == Len(calls') = Len(calls) + 1

\* C6: create_account is called only when the user row exists, add_position
\* only with the id of an existing account row, and a create_user call that
\* raised is followed by no further call.
C6_Step ==
    /\ (Issued /\ Last(calls').op = "create_account") =>
           \E i \in 1..Len(db.users) : db.users[i] = "test_user_001"
    /\ (Issued /\ Last(calls').op = "add_position") =>
           \E i \in 1..Len(db.accounts) : db.accounts[i].id = Last(calls').id
    /\ (calls # <<>> /\ Last(calls).op = "create_user" /\ Last(calls).raised) => ~Issued

C6_ReferentialOrder == [][C6_Step]_vars

C6_Witness ==
    /\ \E i \in 1..Len(calls) : calls[i].op = "create_user" /\ ~calls[i].raised
    /\ Len(CallsOf({"create_account"})) = 3
    /\ Len(CallsOf({"add_position"})) = 5
    /\ fpc = "returned"

\* a text holds '22/22 instruments loaded' at some offset
MarkerAt(t, off) ==
    /\ off + 24 <= Len(t)
    /\ <<t[off + 1], t[off + 2], t[off + 3], t[off + 4], t[off + 5]>>
           = <<"2", "2", "/", "2", "2">>
    /\ t[off + 6] = " "
    /\ SubSeq(t, off + 7, off + 17)
           = <<"i", "n", "s", "t", "r", "u", "m", "e", "n", "t", "s">>
    /\ t[off + 18] = " "
    /\ SubSeq(t, off + 19, off + 24) = <<"l", "o", "a", "d", "e", "d">>

SeedMessages == {"Loaded 22 instruments", "Seed data loaded"}

\* C7: right after a seed run that returned 0 the script has printed
\* 'Loaded 22 instruments' if the captured stdout holds the marker and
\* 'Seed data loaded' otherwise (also for missing or empty stdout), is still
\* running, and at any time has printed at most one seed success message.
C7_SeedMessage ==
    /\ Len(SelectSeq(out, LAMBDA m : m \in SeedMessages)) <= 1
    /\ pc = "fixture" =>
        /\ result.returncode = 0
        /\ exitCode = 0 - 1
        /\ Len(SelectSeq(out, LAMBDA m : m \in SeedMessages)) = 1
        /\ Last(out) \in SeedMessages
        /\ Last(out) = "Loaded 22 instruments" <=>
              /\ ~result.stdout.none
              /\ \E off \in 0..Len(result.stdout.text) : MarkerAt(result.stdout.text, off)
    /\ (calls # <<>> /\ IsSeed(Last(calls)) /\ Last(calls).rc = 0) =>
          (pc \in {"fixture", "in_fixture", "verify"} /\ exitCode = 0 - 1)

C7_Witness ==
    /\ pc = "fixture"
    /\ Len(result.stdout.text) > 24
    /\ Last(out) = "Loaded 22 instruments"

ExpectedCounts ==
    <<"SELECT COUNT(*) as count FROM users",
      "SELECT COUNT(*) as count FROM instruments",
      "SELECT COUNT(*) as count FROM accounts",
      "SELECT COUNT(*) as count FROM positions",
      "SELECT COUNT(*) as count FROM jobs">>

\* the number of rows the table queried last holds
LastQueried ==
    LET t == <<"users", "instruments", "accounts", "positions", "jobs">>[verify_i - 1]
    IN  IF t \in {"instruments", "jobs"} THEN db[t] ELSE Len(db[t])

C8_State ==
    /\ IsPrefix(Args_(CallsOf({"query"})), ExpectedCounts)
    /\ \A i \in 1..Len(calls) : calls[i].op = "query" =>
        /\ \A j \in i..Len(calls) : calls[j].op = "query"
        /\ \E j \in 1..(i - 1) : IsSeed(calls[j]) /\ calls[j].rc = 0
        /\ args.with_test_data => fpc = "returned"
    /\ pc \in {"summary", "done"} => Args_(CallsOf({"query"})) = ExpectedCounts
    /\ (pc \in {"verify", "summary", "done"} /\ verify_i > 1) =>
        /\ rows = <<>> => count = 0
        /\ rows # <<>> => count = LastQueried
    /\ pc = "done" => exitCode = 0

C8_Frame == pc \in {"verify", "summary"} => db' = db

\* C8: the COUNT queries issued are always a prefix of the five, in the order
\* users, instruments, accounts, positions, jobs; a query is issued only after
\* the seed subprocess returned 0 and the fixture step (when requested)
\* returned, and no other call follows it; a completed report has issued all
\* five; an empty result is reported as 0, a row as the table's row count; the
\* run then ends with status 0; and no step of the report changes the database.
C8_ReadOnlyReport == []C8_State /\ [][C8_Frame]_vars

C8_Witness ==
    /\ pc = "done"
    /\ rows = <<>>
    /\ count = 0
    /\ exitCode = 0
    /\ Len(CallsOf({"query"})) = 5

\* C9: in one invocation of create_test_data, if the user had an account on
\* entry no create_account call is made and the ids found are the ones used;
\* otherwise the create_account calls are a prefix of 401(k), Roth IRA,
\* Taxable Brokerage and all three returned before positions are looked at.
\* The add_position calls all carry the first account id and are a prefix of
\* the five symbols, all five once the invocation returned having made any;
\* they are made only when that account held no position.
C9_AllOrNothing ==
    LET created == SelectSeq(CurrentRun, LAMBDA c : c.op = "create_account")
        added == SelectSeq(CurrentRun, LAMBDA c : c.op = "add_position")
        past == fpc \in {"find_positions", "add_position", "returned"}
    IN  run >= 1 =>
        /\ snap.counts.accounts > 0 =>
            /\ created = <<>>
            /\ past => account_ids = [i \in 1..Len(db.accounts) |-> db.accounts[i].id]
        /\ snap.counts.accounts = 0 =>
            /\ IsPrefix(Args_(created), <<"401(k)", "Roth IRA", "Taxable Brokerage">>)
            /\ past => (Len(created) = 3 /\ \A i \in 1..3 : ~created[i].raised)
        /\ IsPrefix(Args_(added), <<"SPY", "QQQ", "BND", "VEA", "GLD">>)
        /\ \A i \in 1..Len(added) : added[i].id = account_ids[1]
        /\ (added # <<>> /\ fpc = "returned") => Len(added) = 5
        /\ added # <<>> =>
              Len(SelectSeq(db.positions, LAMBDA q : q.account_id = account_ids[1]))
                  = Len(SelectSeq(added, LAMBDA c : ~c.raised))

C9_Witness ==
    /\ run = 1
    /\ fpc = "returned"
    /\ snap.counts.accounts = 3
    /\ Len(CallsOf({"create_account"})) = 0
    /\ Len(CallsOf({"add_position"})) = 5
    /\ Len(db.positions) > 5

Phase(c) ==
    CASE c.op = "execute" -> 1
      [] IsMigration(c) -> 2
      [] IsSeed(c) -> 3
      [] c.op = "query" -> 5
      [] OTHER -> 4

Terminated == pc \in {"done", "exited", "crashed"}

\* C10: the calls occur in the order drop, migration, seed, fixture,
\* verification; create_test_data is entered only with --with-test-data and
\* after the seed subprocess returned 0, and with --with-test-data the
\* verification never starts without it; the exit status is set only on
\* termination, is 0 exactly when main ran to its end, and is 1 only after a
\* subprocess returned non-zero or an uncaught call raised; a run that has
\* not terminated can take a step.
C10_StepOrder ==
    /\ \A i \in 1..(Len(calls) - 1) : Phase(calls[i]) <= Phase(calls[i + 1])
    /\ run >= 1 =>
        /\ args.with_test_data
        /\ run = 1
        /\ \E i \in 1..snap.ncalls : IsSeed(calls[i]) /\ calls[i].rc = 0
        /\ IsSeed(calls[snap.ncalls])
    /\ (args.with_test_data /\ (pc \in {"verify", "summary", "done"}
                                \/ CallsOf({"query"}) # <<>>)) =>
          (run = 1 /\ fpc = "returned")
    /\ Terminated <=> exitCode # 0 - 1
    /\ pc = "done" <=> exitCode = 0
    /\ exitCode = 1 =>
          \/ Last(calls).op = "run_cmd" /\ Last(calls).rc # 0
          \/ Last(calls).op # "execute" /\ Last(calls).raised
    /\ Terminated \/ ENABLED Next

C10_Witness ==
    /\ pc = "done"
    /\ exitCode = 0
    /\ args.with_test_data
    /\ ~args.skip_drop
    /\ Len(calls) > 20

====
